---- MODULE Spec2Model ----
(***************************************************************************)
(* State-machine model of SceneManager (SceneManager.cpp): the texture     *)
(* registry (m_textureIDs, m_loadedTextures), the material registry        *)
(* (m_objectMaterials), the OpenGL texture objects and texture units they  *)
(* drive, and the material uniforms of the shader manager.                 *)
(*                                                                         *)
(* Numbers: a float literal of the source is held in thousandths (2.0f is   *)
(* 2000, 0.1f is 100), a vec3 as a triple of thousandths.  A texture ID is *)
(* held as the 32-bit pattern read as int, the type FindTextureID returns, *)
(* so the constructor's -1 is -1.                                          *)
(***************************************************************************)
EXTENDS Integers, Sequences, FiniteSets, TLC

\* m_textureIDs[16]: the number of slots of the texture array
NumSlots == 16

\* bounds of the exploration
\* successful loads
MaxLoads == 17
\* calls and files out of the ordinary: loads that fail or repeat a tag,
\* binds and destroys by the owner, loads besides those of LoadSceneTextures,
\* files of LoadSceneTextures that do not decode to 3 or 4 channels
MaxOdd == 1
\* calls of DefineObjectMaterials
MaxDefines == 2
\* entries of a material registry given as input
MaxRegistry == 3

VARIABLES
    m_textureIDs,       \* [0..NumSlots-1 -> [tag, ID]]
    m_loadedTextures,   \* int
    m_objectMaterials,  \* std::vector<OBJECT_MATERIAL>
    m_pShaderManager,   \* TRUE when the pointer is not NULL
    adjacent,           \* what m_textureIDs[16], [17], ... hold: memory past the array
    glTextures,         \* texture names generated and not deleted (GL)
    glUnits,            \* texture unit -> texture bound to GL_TEXTURE_2D there (GL)
    glActive,           \* the active texture unit (GL)
    imageBuffers,       \* decoded images not yet freed (stb_image)
    uniforms,           \* uniform name -> value pushed to the shader
    fault,              \* the process has crashed
    phase,              \* position in the object's lifetime
    loads,              \* history: <<tag, handle>> of every successful load
    passed,             \* history: tags ever passed to CreateGLTexture
    calls,              \* history: counters that bound the exploration
    last,               \* history: the last call and what it returned
    frame               \* history: the calls of the last RenderScene, in order

vars == <<m_textureIDs, m_loadedTextures, m_objectMaterials, m_pShaderManager,
          adjacent, glTextures, glUnits, glActive, imageBuffers, uniforms,
          fault, phase, loads, passed, calls, last, frame>>

------------------------------------------------------------------------------
\* Tags and files

SceneTags == <<"plastic", "wood", "red", "grip", "brick", "blue", "silver",
               "yellow", "metal2">>

\* the placeholder tag the constructor stores in every slot
PlaceholderTag == "/0"

\* distinct tags a caller may load, the scene's nine first
TagPool == SceneTags \o <<"t10", "t11", "t12", "t13", "t14", "t15", "t16",
                          "t17", "t18", "t19", "t20", "t21", "t22">>

Range(f) == {f[i] : i \in DOMAIN f}

AllTags == Range(TagPool) \cup {PlaceholderTag}

\* what stbi_load yields for a file: 0 is a NULL image (decode failed),
\* otherwise the image's colorChannels
ImageChoices == {0, 1, 3, 4}

UnitIds == 0..(MaxLoads + 1)

------------------------------------------------------------------------------
\* The texture side of the state as one value, so that a method that calls
\* others (LoadSceneTextures) composes them.

TexFields(ids, n, adj, tex, units, active, bufs, flt) ==
    [m_textureIDs |-> ids, m_loadedTextures |-> n, adjacent |-> adj,
     glTextures |-> tex, glUnits |-> units, glActive |-> active,
     imageBuffers |-> bufs, fault |-> flt]

TexNow == TexFields(m_textureIDs, m_loadedTextures, adjacent, glTextures,
                    glUnits, glActive, imageBuffers, fault)

SetTex(s) ==
    /\ m_textureIDs' = s.m_textureIDs
    /\ m_loadedTextures' = s.m_loadedTextures
    /\ adjacent' = s.adjacent
    /\ glTextures' = s.glTextures
    /\ glUnits' = s.glUnits
    /\ glActive' = s.glActive
    /\ imageBuffers' = s.imageBuffers
    /\ fault' = s.fault

texVars == <<m_textureIDs, m_loadedTextures, adjacent, glTextures, glUnits,
             glActive, imageBuffers, fault>>

\* m_textureIDs[i] as the code's indexing reads it: past the array it reads
\* the memory behind it
EntryAt(s, i) ==
    IF i < NumSlots THEN s.m_textureIDs[i]
    ELSE IF i - NumSlots + 1 \in DOMAIN s.adjacent THEN s.adjacent[i - NumSlots + 1]
    ELSE [tag |-> PlaceholderTag, ID |-> -1]

\* glGenTextures(1, &name): a name not in use, the lowest one (names are
\* never deleted, so they come out as 1, 2, 3, ...)
glGenTextures(s) ==
    CHOOSE n \in 1..(Cardinality(s.glTextures) + 1) :
        /\ n \notin s.glTextures
        /\ \A k \in 1..(n - 1) : k \in s.glTextures

------------------------------------------------------------------------------
\* SceneManager::SceneManager

ConstructedTextureIDs == [i \in 0..(NumSlots - 1) |-> [tag |-> PlaceholderTag, ID |-> -1]]

Material(tag, ambientColor, ambientStrength, diffuseColor, specularColor, shininess) ==
    [tag |-> tag, ambientColor |-> ambientColor, ambientStrength |-> ambientStrength,
     diffuseColor |-> diffuseColor, specularColor |-> specularColor,
     shininess |-> shininess]

NoMaterial == Material("", <<0, 0, 0>>, 0, <<0, 0, 0>>, <<0, 0, 0>>, 0)

MaterialUniforms == {"material.ambientColor", "material.ambientStrength",
                     "material.diffuseColor", "material.specularColor",
                     "material.shininess"}

\* SetupSceneLights: the value it pushes for each light uniform
LightValues ==
    [x \in {"bUseLighting"} |-> <<1>>] @@
    ("lightSources[0].position" :> <<0, 10000, 20000>>) @@
    ("lightSources[0].ambientColor" :> <<300, 300, 300>>) @@
    ("lightSources[0].diffuseColor" :> <<400, 400, 400>>) @@
    ("lightSources[0].specularColor" :> <<1000, 1000, 1000>>) @@
    ("lightSources[0].focalStrength" :> <<42000>>) @@
    ("lightSources[0].specularIntensity" :> <<50>>) @@
    ("lightSources[1].position" :> <<-15000, 10000, -15000>>) @@
    ("lightSources[1].ambientColor" :> <<200, 200, 200>>) @@
    ("lightSources[1].diffuseColor" :> <<400, 400, 400>>) @@
    ("lightSources[1].specularColor" :> <<1000, 1000, 1000>>) @@
    ("lightSources[1].focalStrength" :> <<38000>>) @@
    ("lightSources[1].specularIntensity" :> <<50>>) @@
    ("lightSources[2].position" :> <<20000, 10000, 1000>>) @@
    ("lightSources[2].ambientColor" :> <<200, 200, 200>>) @@
    ("lightSources[2].diffuseColor" :> <<300, 300, 300>>) @@
    ("lightSources[2].specularColor" :> <<1000, 1000, 1000>>) @@
    ("lightSources[2].focalStrength" :> <<74000>>) @@
    ("lightSources[2].specularIntensity" :> <<50>>) @@
    ("lightSources[3].position" :> <<0, 0, -25000>>) @@
    ("lightSources[3].ambientColor" :> <<200, 200, 200>>) @@
    ("lightSources[3].diffuseColor" :> <<1000, 1000, 1000>>) @@
    ("lightSources[3].specularColor" :> <<1000, 1000, 1000>>) @@
    ("lightSources[3].focalStrength" :> <<26000>>) @@
    ("lightSources[3].specularIntensity" :> <<50>>)

\* the uniforms the setters push: g_ModelName, g_ColorValueName,
\* g_TextureValueName, g_UseTextureName and "UVscale"
SetterUniforms == {"model", "objectColor", "objectTexture", "bUseTexture", "UVscale"}

\* the uniforms of the shader program; <<>> is a uniform never set
UniformNames == MaterialUniforms \cup DOMAIN LightValues \cup SetterUniforms

NoCall == [op |-> "none", tag |-> "", ret |-> FALSE, slot |-> -1, material |-> NoMaterial]

NoCalls == [odd |-> 0, defines |-> 0, destroys |-> 0, creates |-> 0]

SceneManager(pShaderManager) ==
    /\ m_textureIDs = ConstructedTextureIDs
    /\ m_loadedTextures = 0
    /\ m_objectMaterials = <<>>
    /\ m_pShaderManager = pShaderManager
    /\ adjacent = <<>>
    /\ glTextures = {}
    /\ glUnits = [u \in UnitIds |-> 0]
    /\ glActive = 0
    /\ imageBuffers = 0
    /\ uniforms = [u \in UniformNames |-> <<>>]
    /\ fault = FALSE
    /\ phase = "constructed"
    /\ loads = <<>>
    /\ passed = {}
    /\ calls = NoCalls
    /\ last = NoCall
    /\ frame = <<>>

------------------------------------------------------------------------------
\* SceneManager::CreateGLTexture

\* m_textureIDs[i] = entry, as the code's indexing writes it.  Past the array
\* the behaviour is undefined: the write lands in the memory behind the array
\* (ub = "adjacent") or the process crashes (ub = "fault").
StoreEntry(s, i, entry, ub) ==
    IF i < NumSlots THEN [s EXCEPT !.m_textureIDs[i] = entry]
    ELSE IF ub = "fault" THEN [s EXCEPT !.fault = TRUE]
    ELSE [s EXCEPT !.adjacent =
              [k \in 1..(IF i - NumSlots + 1 > Len(@) THEN i - NumSlots + 1 ELSE Len(@)) |->
                  IF k = i - NumSlots + 1 THEN entry
                  ELSE IF k \in DOMAIN @ THEN @[k]
                  ELSE [tag |-> PlaceholderTag, ID |-> -1]]]

UBChoices == {"adjacent", "fault"}

\* as CreateGLTexture, registering the entry before the channel count is
\* looked at
CreateGLTextureRegistersFirst(s, tag, image, ub) ==
    IF image = 0
    THEN [s |-> s, ret |-> FALSE, slot |-> -1, ID |-> 0]
    ELSE
        LET textureID == glGenTextures(s)
            bound == [s EXCEPT !.imageBuffers = @ + 1,
                               !.glTextures = @ \cup {textureID},
                               !.glUnits[s.glActive] = textureID]
            stored == StoreEntry(bound, s.m_loadedTextures,
                                 [tag |-> tag, ID |-> textureID], ub)
            counted == [stored EXCEPT !.m_loadedTextures = @ + 1]
        IN  IF stored.fault
            THEN [s |-> stored, ret |-> FALSE, slot |-> s.m_loadedTextures,
                  ID |-> textureID]
            ELSE IF image \notin {3, 4}
            THEN [s |-> counted, ret |-> FALSE, slot |-> -1, ID |-> textureID]
            ELSE [s |-> [counted EXCEPT !.imageBuffers = @ - 1,
                                        !.glUnits[s.glActive] = 0],
                  ret |-> TRUE, slot |-> s.m_loadedTextures, ID |-> textureID]

\* as CreateGLTexture, with stbi_image_free on the bad-channel path as well
CreateGLTextureFreesOnFailure(s, tag, image, ub) ==
    IF image = 0
    THEN [s |-> s, ret |-> FALSE, slot |-> -1, ID |-> 0]
    ELSE
        LET textureID == glGenTextures(s)
            bound == [s EXCEPT !.glTextures = @ \cup {textureID},
                               !.glUnits[s.glActive] = textureID]
        IN  IF image \notin {3, 4}
            THEN [s |-> bound, ret |-> FALSE, slot |-> -1, ID |-> textureID]
            ELSE
                LET uploaded == [bound EXCEPT !.glUnits[s.glActive] = 0]
                    stored == StoreEntry(uploaded, s.m_loadedTextures,
                                         [tag |-> tag, ID |-> textureID], ub)
                IN  IF stored.fault
                    THEN [s |-> stored, ret |-> FALSE, slot |-> s.m_loadedTextures,
                          ID |-> textureID]
                    ELSE [s |-> [stored EXCEPT !.m_loadedTextures = @ + 1],
                          ret |-> TRUE, slot |-> s.m_loadedTextures, ID |-> textureID]

\* as CreateGLTexture, a load that fails on the channel count taking up the
\* next slot
CreateGLTextureSkipsSlotOnFailure(s, tag, image, ub) ==
    IF image = 0
    THEN [s |-> s, ret |-> FALSE, slot |-> -1, ID |-> 0]
    ELSE
        LET textureID == glGenTextures(s)
            bound == [s EXCEPT !.imageBuffers = @ + 1,
                               !.glTextures = @ \cup {textureID},
                               !.glUnits[s.glActive] = textureID]
        IN  IF image \notin {3, 4}
            THEN [s |-> [bound EXCEPT !.m_loadedTextures = @ + 1],
                  ret |-> FALSE, slot |-> -1, ID |-> textureID]
            ELSE
                LET uploaded == [bound EXCEPT !.imageBuffers = @ - 1,
                                              !.glUnits[s.glActive] = 0]
                    stored == StoreEntry(uploaded, s.m_loadedTextures,
                                         [tag |-> tag, ID |-> textureID], ub)
                IN  IF stored.fault
                    THEN [s |-> stored, ret |-> FALSE, slot |-> s.m_loadedTextures,
                          ID |-> textureID]
                    ELSE [s |-> [stored EXCEPT !.m_loadedTextures = @ + 1],
                          ret |-> TRUE, slot |-> s.m_loadedTextures, ID |-> textureID]

\* the result of one call: the state it leaves, what it returns, the index it
\* registered at (-1: none) and the texture name it generated (0: none)
CreateGLTexture(s, tag, image, ub) ==
    IF image = 0
    THEN [s |-> s, ret |-> FALSE, slot |-> -1, ID |-> 0]
    ELSE
        LET textureID == glGenTextures(s)
            bound == [s EXCEPT !.imageBuffers = @ + 1,
                               !.glTextures = @ \cup {textureID},
                               !.glUnits[s.glActive] = textureID]
        IN  IF image \notin {3, 4}
            THEN [s |-> bound, ret |-> FALSE, slot |-> -1, ID |-> textureID]
            ELSE
                LET uploaded == [bound EXCEPT !.imageBuffers = @ - 1,
                                              !.glUnits[s.glActive] = 0]
                    stored == StoreEntry(uploaded, s.m_loadedTextures,
                                         [tag |-> tag, ID |-> textureID], ub)
                IN  IF stored.fault
                    THEN [s |-> stored, ret |-> FALSE, slot |-> s.m_loadedTextures,
                          ID |-> textureID]
                    ELSE [s |-> [stored EXCEPT !.m_loadedTextures = @ + 1],
                          ret |-> TRUE, slot |-> s.m_loadedTextures, ID |-> textureID]

------------------------------------------------------------------------------
\* SceneManager::BindGLTextures

\* as BindGLTextures, without the glActiveTexture call
BindGLTexturesOneUnit(s) ==
    IF s.m_loadedTextures > 0
    THEN [s EXCEPT !.glUnits[s.glActive] = EntryAt(s, s.m_loadedTextures - 1).ID]
    ELSE s

BindGLTextures(s) ==
    [s EXCEPT !.glUnits = [u \in DOMAIN @ |->
                              IF u < s.m_loadedTextures THEN EntryAt(s, u).ID ELSE @[u]],
              !.glActive = IF s.m_loadedTextures > 0 THEN s.m_loadedTextures - 1 ELSE @]

------------------------------------------------------------------------------
\* SceneManager::DestroyGLTextures

\* the loop of DestroyGLTextures from index i on.  An entry past the array is
\* one an earlier load wrote behind it, and is written where that load wrote.
RECURSIVE DestroyFrom(_, _)
DestroyFrom(s, i) ==
    IF i < s.m_loadedTextures
    THEN LET name == glGenTextures(s)
             gen == [s EXCEPT !.glTextures = @ \cup {name}]
         IN  DestroyFrom(StoreEntry(gen, i, [EntryAt(s, i) EXCEPT !.ID = name], "adjacent"),
                         i + 1)
    ELSE s

DestroyGLTextures(s) == DestroyFrom(s, 0)

------------------------------------------------------------------------------
\* SceneManager::FindTextureID, SceneManager::FindTextureSlot

RECURSIVE ScanTextures(_, _, _, _)
ScanTextures(s, tag, index, limit) ==
    IF index < limit
    THEN IF EntryAt(s, index).tag = tag THEN index
         ELSE ScanTextures(s, tag, index + 1, limit)
    ELSE -1

FindTextureID(s, tag) ==
    LET index == ScanTextures(s, tag, 0, s.m_loadedTextures)
    IN  IF index = -1 THEN -1 ELSE EntryAt(s, index).ID

\* as FindTextureSlot, scanning all the slots of the array
FindTextureSlotAllSlots(s, tag) ==
    ScanTextures(s, tag, 0, NumSlots)

\* as FindTextureSlot, the scan starting at index 1
FindTextureSlotFromOne(s, tag) == ScanTextures(s, tag, 1, s.m_loadedTextures)

FindTextureSlot(s, tag) ==
    ScanTextures(s, tag, 0, s.m_loadedTextures)

------------------------------------------------------------------------------
\* SceneManager::LoadSceneTextures: nine loads, results ignored, then the bind.
\* images[k] is what stbi_load yields for the k-th file.

RECURSIVE LoadFiles(_, _, _, _)
LoadFiles(acc, images, ub, k) ==
    IF k > Len(SceneTags) THEN acc
    ELSE LET r == CreateGLTexture(acc.s, SceneTags[k], images[k], ub)
         IN  LoadFiles([s |-> r.s,
                        loads |-> IF r.ret THEN Append(acc.loads, <<SceneTags[k], r.ID>>)
                                  ELSE acc.loads],
                       images, ub, k + 1)

\* as LoadSceneTextures, without the call of BindGLTextures
LoadSceneTexturesNoBind(s, hist, images, ub) ==
    LoadFiles([s |-> s, loads |-> hist], images, ub, 1)

LoadSceneTextures(s, hist, images, ub) ==
    LET loaded == LoadFiles([s |-> s, loads |-> hist], images, ub, 1)
    IN  [s |-> BindGLTextures(loaded.s), loads |-> loaded.loads]

------------------------------------------------------------------------------
\* SceneManager::FindMaterial: what it returns and what it leaves in the
\* caller's material

RECURSIVE ScanMaterials(_, _, _)
ScanMaterials(materials, tag, index) ==
    IF index <= Len(materials)
    THEN IF materials[index].tag = tag THEN index
         ELSE ScanMaterials(materials, tag, index + 1)
    ELSE 0

\* as FindMaterial, copying from the last entry with the tag
FindMaterialLastMatch(materials, tag, material) ==
    IF Len(materials) = 0
    THEN [ret |-> FALSE, material |-> material]
    ELSE LET hits == {i \in DOMAIN materials : materials[i].tag = tag}
             index == IF hits = {} THEN 0
                      ELSE CHOOSE i \in hits : \A j \in hits : j <= i
         IN  [ret |-> TRUE,
              material |->
                  IF index = 0 THEN material
                  ELSE [material EXCEPT
                           !.ambientColor = materials[index].ambientColor,
                           !.ambientStrength = materials[index].ambientStrength,
                           !.diffuseColor = materials[index].diffuseColor,
                           !.specularColor = materials[index].specularColor,
                           !.shininess = materials[index].shininess]]

FindMaterial(materials, tag, material) ==
    IF Len(materials) = 0
    THEN [ret |-> FALSE, material |-> material]
    ELSE LET index == ScanMaterials(materials, tag, 1)
         IN  [ret |-> TRUE,
              material |->
                  IF index = 0 THEN material
                  ELSE [material EXCEPT
                           !.ambientColor = materials[index].ambientColor,
                           !.ambientStrength = materials[index].ambientStrength,
                           !.diffuseColor = materials[index].diffuseColor,
                           !.specularColor = materials[index].specularColor,
                           !.shininess = materials[index].shininess]]

------------------------------------------------------------------------------
\* SceneManager::SetShaderMaterial.  Its local OBJECT_MATERIAL is not
\* initialised: local is what the five fields happen to hold.  The uniforms
\* it leaves, and whether it dereferenced m_pShaderManager.

SetShaderMaterial(materials, unis, tag, local) ==
    IF Len(materials) > 0
    THEN LET r == FindMaterial(materials, tag, local)
         IN  IF r.ret = TRUE
             THEN [deref |-> TRUE,
                   uniforms |->
                       [unis EXCEPT
                           !["material.ambientColor"] = r.material.ambientColor,
                           !["material.ambientStrength"] = <<r.material.ambientStrength>>,
                           !["material.diffuseColor"] = r.material.diffuseColor,
                           !["material.specularColor"] = r.material.specularColor,
                           !["material.shininess"] = <<r.material.shininess>>]]
             ELSE [deref |-> FALSE, uniforms |-> unis]
    ELSE [deref |-> FALSE, uniforms |-> unis]

\* values an uninitialised OBJECT_MATERIAL may hold
IndeterminateMaterials ==
    {Material("", <<0, 0, 0>>, 0, <<0, 0, 0>>, <<0, 0, 0>>, 0),
     Material("", <<-1, 77, 3>>, -9, <<5, 5, -5>>, <<1, 2, 3>>, 123)}

------------------------------------------------------------------------------
\* SceneManager::DefineObjectMaterials: the one push_back is of goldMaterial.
\* woodMaterial is filled in twice and never pushed; plasticMaterial is
\* declared and never used.

\* goldMaterial as filled in
goldMaterial ==
    Material("metal", <<200, 200, 200>>, 5000, <<200, 200, 200>>,
             <<500, 500, 500>>, 12000)

\* woodMaterial as first filled in
woodMaterial ==
    Material("wood", <<100, 100, 100>>, 2000, <<300, 300, 300>>,
             <<100, 100, 100>>, 4000)

\* woodMaterial after the assignments under the declaration of plasticMaterial
woodMaterialAgain ==
    [woodMaterial EXCEPT !.ambientColor = <<100, 100, 100>>,
                         !.ambientStrength = 1500,
                         !.diffuseColor = <<300, 300, 300>>,
                         !.specularColor = <<100, 100, 100>>,
                         !.shininess = 1000,
                         !.tag = "plastic"]

DefineObjectMaterials(materials) ==
    Append(materials, goldMaterial)

------------------------------------------------------------------------------
\* SceneManager::SetupSceneLights

SetupSceneLights(unis) ==
    [u \in DOMAIN unis |-> IF u \in DOMAIN LightValues THEN LightValues[u] ELSE unis[u]]

------------------------------------------------------------------------------
\* Inputs of the calls

Min(S) == CHOOSE x \in S : \A y \in S : x <= y

\* a tag not yet passed to a load (the first of the pool), or the pool's first
\* tag again
FreshTags ==
    LET free == {i \in DOMAIN TagPool : TagPool[i] \notin passed}
    IN  IF free = {} THEN {} ELSE {TagPool[Min(free)]}

LoadTags == FreshTags \cup (passed \cap {TagPool[1]})

\* a load that fails or repeats a tag counts 1
OddLoad(tag, image) == IF tag \in passed \/ image \notin {3, 4} THEN 1 ELSE 0

\* what the nine files of LoadSceneTextures decode to: all with channels
\* colorChannels, but for the files of bad
SceneImages(bad, colorChannels) ==
    [k \in DOMAIN SceneTags |-> IF k \in DOMAIN bad THEN bad[k] ELSE colorChannels]

BadFiles ==
    UNION {[B -> {0, 1}] :
              B \in {X \in SUBSET DOMAIN SceneTags : Cardinality(X) <= MaxOdd - calls.odd}}

MaterialTags == {"metal", "wood", "plastic"}

Call(op, tag, ret, slot, material) ==
    [op |-> op, tag |-> tag, ret |-> ret, slot |-> slot, material |-> material]

------------------------------------------------------------------------------
\* Steps: one call of a method by the owner of the object

\* CreateGLTexture(filename, tag), the file decoding to image
Load(tag, image, ub, odd) ==
    /\ ~fault
    /\ phase # "destroyed"
    /\ calls.odd + odd <= MaxOdd
    /\ LET r == CreateGLTexture(TexNow, tag, image, ub)
       IN  /\ SetTex(r.s)
           /\ loads' = IF r.ret THEN Append(loads, <<tag, r.ID>>) ELSE loads
           /\ last' = Call("CreateGLTexture", tag, r.ret, r.slot, NoMaterial)
    /\ passed' = passed \cup {tag}
    /\ calls' = [calls EXCEPT !.odd = @ + odd, !.creates = @ + 1]
    /\ UNCHANGED <<m_objectMaterials, m_pShaderManager, uniforms, phase, frame>>

Bind ==
    /\ ~fault
    /\ phase # "destroyed"
    /\ calls.odd < MaxOdd
    /\ SetTex(BindGLTextures(TexNow))
    /\ last' = Call("BindGLTextures", "", FALSE, -1, NoMaterial)
    /\ calls' = [calls EXCEPT !.odd = @ + 1]
    /\ UNCHANGED <<m_objectMaterials, m_pShaderManager, uniforms, phase, loads,
                   passed, frame>>

Destroy ==
    /\ ~fault
    /\ phase # "destroyed"
    /\ calls.odd < MaxOdd
    /\ SetTex(DestroyGLTextures(TexNow))
    /\ last' = Call("DestroyGLTextures", "", FALSE, -1, NoMaterial)
    /\ calls' = [calls EXCEPT !.odd = @ + 1, !.destroys = @ + 1]
    /\ UNCHANGED <<m_objectMaterials, m_pShaderManager, uniforms, phase, loads,
                   passed, frame>>

\* as PrepareScene, calling DefineObjectMaterials as well
PrepareSceneDefinesMaterials(images, ub) ==
    /\ ~fault
    /\ phase = "constructed"
    /\ LET r == LoadSceneTextures(TexNow, loads, images, ub)
       IN  /\ SetTex([r.s EXCEPT !.fault = @ \/ ~m_pShaderManager])
           /\ loads' = r.loads
           /\ uniforms' = IF r.s.fault \/ ~m_pShaderManager THEN uniforms
                          ELSE SetupSceneLights(uniforms)
           /\ phase' = IF r.s.fault \/ ~m_pShaderManager THEN phase ELSE "prepared"
    /\ passed' = passed \cup Range(SceneTags)
    /\ calls' = [calls EXCEPT !.odd = @ + Cardinality({k \in DOMAIN images :
                                                         images[k] \notin {3, 4}}),
                              !.creates = @ + Len(SceneTags)]
    /\ last' = Call("PrepareScene", "", FALSE, -1, NoMaterial)
    /\ m_objectMaterials' = DefineObjectMaterials(m_objectMaterials)
    /\ UNCHANGED <<m_pShaderManager, frame>>

\* SceneManager::PrepareScene: LoadSceneTextures, SetupSceneLights (which
\* dereferences m_pShaderManager unchecked), then the mesh loads
PrepareScene(images, ub) ==
    /\ ~fault
    /\ phase = "constructed"
    /\ LET r == LoadSceneTextures(TexNow, loads, images, ub)
       IN  /\ SetTex([r.s EXCEPT !.fault = @ \/ ~m_pShaderManager])
           /\ loads' = r.loads
           /\ uniforms' = IF r.s.fault \/ ~m_pShaderManager THEN uniforms
                          ELSE SetupSceneLights(uniforms)
           /\ phase' = IF r.s.fault \/ ~m_pShaderManager THEN phase ELSE "prepared"
    /\ passed' = passed \cup Range(SceneTags)
    /\ calls' = [calls EXCEPT !.odd = @ + Cardinality({k \in DOMAIN images :
                                                         images[k] \notin {3, 4}}),
                              !.creates = @ + Len(SceneTags)]
    /\ last' = Call("PrepareScene", "", FALSE, -1, NoMaterial)
    /\ UNCHANGED <<m_objectMaterials, m_pShaderManager, frame>>

Define ==
    /\ ~fault
    /\ phase # "destroyed"
    /\ calls.defines < MaxDefines
    /\ m_objectMaterials' = DefineObjectMaterials(m_objectMaterials)
    /\ calls' = [calls EXCEPT !.defines = @ + 1]
    /\ last' = Call("DefineObjectMaterials", "", FALSE, -1, NoMaterial)
    /\ UNCHANGED <<texVars, m_pShaderManager, uniforms, phase, loads, passed, frame>>

Find(tag, material) ==
    /\ ~fault
    /\ phase # "destroyed"
    /\ LET r == FindMaterial(m_objectMaterials, tag, material)
       IN  last' = Call("FindMaterial", tag, r.ret, -1, r.material)
    /\ UNCHANGED <<texVars, m_objectMaterials, m_pShaderManager, uniforms, phase,
                   loads, passed, calls, frame>>

SetMaterial(tag, local) ==
    /\ ~fault
    /\ phase # "destroyed"
    /\ LET r == SetShaderMaterial(m_objectMaterials, uniforms, tag, local)
       IN  /\ fault' = (r.deref /\ ~m_pShaderManager)
           /\ uniforms' = IF r.deref /\ ~m_pShaderManager THEN uniforms ELSE r.uniforms
    /\ last' = Call("SetShaderMaterial", tag, FALSE, -1, NoMaterial)
    /\ UNCHANGED <<m_textureIDs, m_loadedTextures, adjacent, glTextures, glUnits,
                   glActive, imageBuffers, m_objectMaterials, m_pShaderManager,
                   phase, loads, passed, calls, frame>>

\* as Destructor, without the DestroyGLTextures call
DestructorNoDestroy ==
    /\ ~fault
    /\ phase # "destroyed"
    /\ m_pShaderManager' = FALSE
    /\ phase' = "destroyed"
    /\ last' = Call("~SceneManager", "", FALSE, -1, NoMaterial)
    /\ UNCHANGED <<texVars, m_objectMaterials, uniforms, loads, passed, calls, frame>>

\* SceneManager::~SceneManager
Destructor ==
    /\ ~fault
    /\ phase # "destroyed"
    /\ m_pShaderManager' = FALSE
    /\ SetTex(DestroyGLTextures(TexNow))
    /\ phase' = "destroyed"
    /\ calls' = [calls EXCEPT !.destroys = @ + 1]
    /\ last' = Call("~SceneManager", "", FALSE, -1, NoMaterial)
    /\ UNCHANGED <<m_objectMaterials, uniforms, loads, passed, frame>>

------------------------------------------------------------------------------
\* The object's lifetime: construction, PrepareScene, calls of the owner,
\* destruction

Init == \E pShaderManager \in BOOLEAN : SceneManager(pShaderManager)

Next ==
    \/ \E bad \in BadFiles, c \in {3, 4}, ub \in UBChoices :
           PrepareScene(SceneImages(bad, c), ub)
    \/ \E tag \in LoadTags, image \in ImageChoices, ub \in UBChoices :
           Load(tag, image, ub, 1)
    \/ Define
    \/ \E tag \in MaterialTags, material \in IndeterminateMaterials : Find(tag, material)
    \/ \E tag \in MaterialTags, local \in IndeterminateMaterials : SetMaterial(tag, local)
    \/ Destructor

Spec == Init /\ [][Next]_vars

------------------------------------------------------------------------------
\* The texture registry under any sequence of loads, binds and destroys

InitTex == SceneManager(TRUE)

NextTex ==
    \/ \E tag \in LoadTags, image \in ImageChoices, ub \in UBChoices :
           Len(loads) < MaxLoads /\ Load(tag, image, ub, OddLoad(tag, image))
    \/ Bind
    \/ Destroy

SpecTex == InitTex /\ [][NextTex]_vars

------------------------------------------------------------------------------
\* FindMaterial and SetShaderMaterial over any small material registry,
\* duplicates of a tag included

MaterialChoices ==
    {goldMaterial, woodMaterial, [woodMaterialAgain EXCEPT !.tag = "wood"],
     [woodMaterial EXCEPT !.tag = "metal"]}

Registries == UNION {[1..n -> MaterialChoices] : n \in 0..MaxRegistry}

InitMat ==
    /\ m_textureIDs = ConstructedTextureIDs
    /\ m_loadedTextures = 0
    /\ m_objectMaterials \in Registries
    /\ m_pShaderManager = TRUE
    /\ adjacent = <<>>
    /\ glTextures = {}
    /\ glUnits = [u \in UnitIds |-> 0]
    /\ glActive = 0
    /\ imageBuffers = 0
    /\ uniforms = [u \in UniformNames |-> <<>>]
    /\ fault = FALSE
    /\ phase = "constructed"
    /\ loads = <<>>
    /\ passed = {}
    /\ calls = NoCalls
    /\ last = NoCall
    /\ frame = <<>>

NextMat ==
    \/ \E tag \in MaterialTags, material \in IndeterminateMaterials : Find(tag, material)
    \/ \E tag \in MaterialTags, local \in IndeterminateMaterials : SetMaterial(tag, local)

SpecMat == InitMat /\ [][NextMat]_vars

------------------------------------------------------------------------------
\* Claims

\* the tags of the successful loads are pairwise distinct
DistinctLoads == \A i, j \in DOMAIN loads : i # j => loads[i][1] # loads[j][1]

\* C1: after at most 16 successful loads with pairwise-distinct tags followed
\* by BindGLTextures, the k-th loaded tag (from 0) is found at slot k, its ID
\* is the handle that load stored, and that handle is bound to texture unit k.
C1_BindFollowsLoadOrder ==
    (/\ last.op = "BindGLTextures"
     /\ Len(loads) <= NumSlots
     /\ DistinctLoads
     /\ calls.destroys = 0)
    => \A k \in DOMAIN loads :
           /\ FindTextureSlot(TexNow, loads[k][1]) = k - 1
           /\ FindTextureID(TexNow, loads[k][1]) = loads[k][2]
           /\ glUnits[k - 1] = loads[k][2]

\* C1 witness: the bind of a registry filled to its 16 slots
C1_Witness ==
    /\ last.op = "BindGLTextures"
    /\ Len(loads) = NumSlots
    /\ DistinctLoads
    /\ calls.destroys = 0
    /\ glUnits[NumSlots - 1] = loads[NumSlots][2]

\* C2: a tag never passed to a load, the constructor's placeholder "/0"
\* included, is found by neither FindTextureSlot nor FindTextureID: both
\* return -1.
C2_NeverLoadedNotFound ==
    \A tag \in AllTags \ passed :
        /\ FindTextureSlot(TexNow, tag) = -1
        /\ FindTextureID(TexNow, tag) = -1

\* C2 witness: a registry holding loaded entries and placeholder slots, with
\* tags never passed to a load
C2_Witness ==
    /\ m_loadedTextures \in 1..(NumSlots - 1)
    /\ EntryAt(TexNow, m_loadedTextures).tag = PlaceholderTag
    /\ PlaceholderTag \notin passed
    /\ FindTextureSlot(TexNow, PlaceholderTag) = -1
    /\ \E tag \in Range(TagPool) \ passed : FindTextureID(TexNow, tag) = -1

\* the five fields FindMaterial copies
Fields(material) ==
    <<material.ambientColor, material.ambientStrength, material.diffuseColor,
      material.specularColor, material.shininess>>

\* the entries of the registry with the tag
Tagged(tag) == {i \in DOMAIN m_objectMaterials : m_objectMaterials[i].tag = tag}

\* C3: when the registry holds two or more entries with the same tag and
\* different field values, FindMaterial(tag) leaves in its output the five
\* fields of the entry appended first, never those of a later duplicate.
C3_FirstDuplicateWins ==
    (/\ last.op = "FindMaterial"
     /\ \E i, j \in Tagged(last.tag) :
            Fields(m_objectMaterials[i]) # Fields(m_objectMaterials[j]))
    => /\ last.ret
       /\ Fields(last.material) = Fields(m_objectMaterials[Min(Tagged(last.tag))])

\* C3 witness: a lookup of a tag held twice, with other values the second time
C3_Witness ==
    /\ last.op = "FindMaterial"
    /\ \E i, j \in Tagged(last.tag) :
           /\ i = Min(Tagged(last.tag))
           /\ i < j
           /\ Fields(m_objectMaterials[i]) # Fields(m_objectMaterials[j])
           /\ Fields(last.material) = Fields(m_objectMaterials[i])

\* C4: FindMaterial(tag) returns false for every tag that matches no entry of
\* the registry, empty or not; so FindMaterial("plastic") fails after
\* DefineObjectMaterials.
C4_UnmatchedTagNotFound ==
    (last.op = "FindMaterial" /\ Tagged(last.tag) = {}) => last.ret = FALSE

\* the material uniforms as pushed to the shader
MaterialUniformValues(unis) ==
    <<unis["material.ambientColor"], unis["material.ambientStrength"],
      unis["material.diffuseColor"], unis["material.specularColor"],
      unis["material.shininess"]>>

\* the material uniforms that hold the five fields of a material
UniformsOf(material) ==
    <<material.ambientColor, <<material.ambientStrength>>, material.diffuseColor,
      material.specularColor, <<material.shininess>>>>

\* C5: SetShaderMaterial(tag) leaves the five material uniforms unchanged when
\* the registry is empty or holds no entry with the tag, and writes them only
\* when an entry matches, with that entry's values.
C5_SetMaterialOnlyOnMatch ==
    [][(last'.op = "SetShaderMaterial" /\ ~fault')
       => IF Tagged(last'.tag) = {}
          THEN MaterialUniformValues(uniforms') = MaterialUniformValues(uniforms)
          ELSE MaterialUniformValues(uniforms') =
                   UniformsOf(m_objectMaterials[Min(Tagged(last'.tag))])]_vars

\* C6: after DefineObjectMaterials the registry holds entries tagged "metal"
\* and "wood", and FindMaterial("wood") yields ambientStrength 2.0 and
\* shininess 4.0.
C6_WoodDefined ==
    calls.defines > 0
    => /\ Tagged("metal") # {}
       /\ Tagged("wood") # {}
       /\ \A material \in IndeterminateMaterials :
              LET r == FindMaterial(m_objectMaterials, "wood", material)
              IN  /\ r.ret
                  /\ r.material.ambientStrength = 2000
                  /\ r.material.shininess = 4000

\* C7: if all nine decodes succeed, LoadSceneTextures leaves exactly nine
\* entries, bound to units 0..8 in load order (plastic, wood, red, grip, brick,
\* blue, silver, yellow, metal2), and one further successful load is
\* registered at slot 9.
C7_NineTexturesThenSlotNine ==
    /\ (last.op = "PrepareScene" /\ calls.odd = 0)
       => /\ m_loadedTextures = Len(SceneTags)
          /\ \A k \in DOMAIN SceneTags :
                 /\ EntryAt(TexNow, k - 1).tag = SceneTags[k]
                 /\ FindTextureSlot(TexNow, SceneTags[k]) = k - 1
                 /\ EntryAt(TexNow, k - 1).ID \in glTextures
                 /\ glUnits[k - 1] = EntryAt(TexNow, k - 1).ID
          /\ \A i, j \in DOMAIN SceneTags :
                 i # j => EntryAt(TexNow, i - 1).ID # EntryAt(TexNow, j - 1).ID
    /\ (last.op = "CreateGLTexture" /\ last.ret /\ phase = "prepared" /\ calls.odd = 1)
       => /\ last.slot = Len(SceneTags)
          /\ m_loadedTextures = Len(SceneTags) + 1
          /\ EntryAt(TexNow, Len(SceneTags)).tag = last.tag

\* C7 witness: the tenth load, after LoadSceneTextures loaded its nine files
C7_Witness ==
    /\ last.op = "CreateGLTexture"
    /\ last.ret
    /\ phase = "prepared"
    /\ calls.odd = 1
    /\ last.slot = Len(SceneTags)
    /\ \A k \in DOMAIN SceneTags : EntryAt(TexNow, k - 1).tag = SceneTags[k]

\* C8: after any sequence of loads m_loadedTextures is at most 16 and every
\* registration writes to an index inside the 16-slot array.
C8_AtMostSixteen ==
    /\ m_loadedTextures <= NumSlots
    /\ (last.op = "CreateGLTexture" /\ last.slot # -1) => last.slot \in 0..(NumSlots - 1)

\* C9: the tags of the loaded entries (indices 0..m_loadedTextures-1) are
\* pairwise distinct, whatever the loads, loads that repeat a tag included.
C9_LoadedTagsDistinct ==
    \A i, j \in 0..(m_loadedTextures - 1) :
        i # j => EntryAt(TexNow, i).tag # EntryAt(TexNow, j).tag

\* C10: after DestroyGLTextures returns, no texture handle created by a
\* successful load remains allocated, and the call allocated no new handle.
C10_DestroyReleasesAll ==
    [][last'.op \in {"DestroyGLTextures", "~SceneManager"}
       => /\ \A k \in DOMAIN loads : loads[k][2] \notin glTextures'
          /\ glTextures' \subseteq glTextures]_vars


-------------------------------------------------------------------------------
\* Teardown called more than once: a few loads, then DestroyGLTextures again
\* and again

\* the loads made before the teardown calls
MaxTeardownLoads == 3
\* the teardown calls of one run
MaxDestroys == 2

\* DestroyGLTextures called by the owner, any number of times
Teardown ==
    /\ ~fault
    /\ phase # "destroyed"
    /\ calls.destroys < MaxDestroys
    /\ SetTex(DestroyGLTextures(TexNow))
    /\ last' = Call("DestroyGLTextures", "", FALSE, -1, NoMaterial)
    /\ calls' = [calls EXCEPT !.destroys = @ + 1]
    /\ UNCHANGED <<m_objectMaterials, m_pShaderManager, uniforms, phase, loads,
                   passed, frame>>

NextTeardown ==
    \/ \E tag \in FreshTags, image \in ImageChoices, ub \in UBChoices :
           /\ Len(loads) < MaxTeardownLoads
           /\ Load(tag, image, ub, OddLoad(tag, image))
    \/ Teardown

SpecTeardown == InitTex /\ [][NextTeardown]_vars

\* C11: a DestroyGLTextures call that directly follows another one leaves
\* the stored IDs, the entry count and the backend's allocated names exactly as
\* the first call left them, and a call with no loaded entry changes nothing
C11_DestroyTwiceIdempotent ==
    [][ /\ (last.op = "DestroyGLTextures" /\ last'.op = "DestroyGLTextures")
            => UNCHANGED <<m_textureIDs, m_loadedTextures, adjacent, glTextures>>
        /\ (last'.op = "DestroyGLTextures" /\ m_loadedTextures = 0)
            => UNCHANGED <<m_textureIDs, m_loadedTextures, adjacent, glTextures>>
      ]_vars

\* the part of C11 that the code keeps: a call with no loaded entry changes
\* nothing
C11_EmptyDestroyChangesNothing ==
    [][ (last'.op = "DestroyGLTextures" /\ m_loadedTextures = 0)
            => UNCHANGED <<m_textureIDs, m_loadedTextures, adjacent, glTextures>>
      ]_vars

\* C12: a CreateGLTexture call whose image does not decode (0) or decodes to
\* a channel count other than 3 or 4 returns false and leaves m_loadedTextures
\* and every stored (tag, ID) pair as they were, so its tag resolves as before
\* the call: not found, unless an earlier load registered it
C12_FailedLoadKeepsRegistry ==
    \A tag \in LoadTags \cup {PlaceholderTag}, image \in ImageChoices \ {3, 4},
       ub \in UBChoices :
        LET r == CreateGLTexture(TexNow, tag, image, ub)
        IN  /\ ~r.ret
            /\ r.s.m_loadedTextures = m_loadedTextures
            /\ r.s.m_textureIDs = m_textureIDs
            /\ r.s.adjacent = adjacent
            /\ FindTextureSlot(r.s, tag) = FindTextureSlot(TexNow, tag)
            /\ FindTextureID(r.s, tag) = FindTextureID(TexNow, tag)
            /\ tag \notin {loads[k][1] : k \in DOMAIN loads}
                   => FindTextureSlot(r.s, tag) = -1

\* a load of a one-channel image has just failed on a registry that holds
\* entries, and its tag is not found
C12_Witness ==
    /\ last.op = "CreateGLTexture"
    /\ ~last.ret
    /\ ~fault
    /\ imageBuffers = 1
    /\ m_loadedTextures = 2
    /\ Len(loads) = 2
    /\ FindTextureSlot(TexNow, last.tag) = -1

\* C18: a CreateGLTexture call that decodes a 3- or 4-channel image and
\* returns true has freed the decoded buffer (no buffer more is held than
\* before), whereas a call that decodes any other channel count returns false
\* and still holds the buffer
C18_BufferFreedOnlyOnSuccess ==
    \A tag \in LoadTags, image \in ImageChoices \ {0}, ub \in UBChoices :
        LET r == CreateGLTexture(TexNow, tag, image, ub)
        IN  /\ (image \in {3, 4} /\ r.ret) => r.s.imageBuffers = imageBuffers
            /\ image \notin {3, 4} => (~r.ret /\ r.s.imageBuffers = imageBuffers + 1)

\* a load has succeeded after a load of a one-channel image left its buffer
\* behind
C18_Witness ==
    /\ last.op = "CreateGLTexture"
    /\ last.ret
    /\ imageBuffers = 1
    /\ m_loadedTextures >= 1

-------------------------------------------------------------------------------
\* SceneManager::SetTransformations.  Matrices are four rows of four entries
\* in thousandths; a product is cut back to thousandths.  Angles are in
\* thousandths of a degree.

Angles == {0, 30000, 60000, 90000, 150000, 180000, -30000, -60000, -90000, -150000}

\* glm::radians followed by cos, for the angles RenderScene uses and the right angles
Cos(a) ==
    CASE a = 0 -> 1000
      [] a \in {30000, -30000} -> 866
      [] a \in {60000, -60000} -> 500
      [] a \in {90000, -90000} -> 0
      [] a \in {150000, -150000} -> -866
      [] a = 180000 -> -1000

\* glm::radians followed by sin
Sin(a) ==
    CASE a \in {0, 180000} -> 0
      [] a = 30000 -> 500
      [] a = -30000 -> -500
      [] a = 60000 -> 866
      [] a = -60000 -> -866
      [] a = 90000 -> 1000
      [] a = -90000 -> -1000
      [] a = 150000 -> 500
      [] a = -150000 -> -500

\* operator* of glm::mat4 (a and b are A and B, each evaluated once)
MatMul(A, B) ==
    CHOOSE product \in
        {[i \in 1..4 |-> [j \in 1..4 |->
             (a[i][1] * b[1][j] + a[i][2] * b[2][j] + a[i][3] * b[3][j]
                 + a[i][4] * b[4][j]) \div 1000]] : a \in {A}, b \in {B}} : TRUE

\* glm::scale(scaleXYZ)
ScaleMatrix(v) ==
    << <<v[1], 0, 0, 0>>, <<0, v[2], 0, 0>>, <<0, 0, v[3], 0>>, <<0, 0, 0, 1000>> >>

\* glm::rotate(angle, vec3(1, 0, 0))
RotationX(a) ==
    << <<1000, 0, 0, 0>>, <<0, Cos(a), -Sin(a), 0>>, <<0, Sin(a), Cos(a), 0>>,
       <<0, 0, 0, 1000>> >>

\* glm::rotate(angle, vec3(0, 1, 0))
RotationY(a) ==
    << <<Cos(a), 0, Sin(a), 0>>, <<0, 1000, 0, 0>>, <<-Sin(a), 0, Cos(a), 0>>,
       <<0, 0, 0, 1000>> >>

\* glm::rotate(angle, vec3(0, 0, 1))
RotationZ(a) ==
    << <<Cos(a), -Sin(a), 0, 0>>, <<Sin(a), Cos(a), 0, 0>>, <<0, 0, 1000, 0>>,
       <<0, 0, 0, 1000>> >>

\* glm::translate(positionXYZ)
TranslationMatrix(v) ==
    << <<1000, 0, 0, v[1]>>, <<0, 1000, 0, v[2]>>, <<0, 0, 1000, v[3]>>,
       <<0, 0, 0, 1000>> >>

\* as ModelView, with rotationY applied before rotationX
ModelViewYBeforeX(scaleXYZ, XrotationDegrees, YrotationDegrees, ZrotationDegrees, positionXYZ) ==
    MatMul(MatMul(MatMul(MatMul(TranslationMatrix(positionXYZ),
                                RotationY(YrotationDegrees)),
                         RotationX(XrotationDegrees)),
                  RotationZ(ZrotationDegrees)),
           ScaleMatrix(scaleXYZ))

\* modelView = translation * rotationX * rotationY * rotationZ * scale
ModelView(scaleXYZ, XrotationDegrees, YrotationDegrees, ZrotationDegrees, positionXYZ) ==
    MatMul(MatMul(MatMul(MatMul(TranslationMatrix(positionXYZ),
                                RotationX(XrotationDegrees)),
                         RotationY(YrotationDegrees)),
                  RotationZ(ZrotationDegrees)),
           ScaleMatrix(scaleXYZ))

\* the uniforms SetTransformations leaves; shader is NULL != m_pShaderManager
SetTransformations(shader, unis, scaleXYZ, XrotationDegrees, YrotationDegrees, ZrotationDegrees, positionXYZ) ==
    IF shader
    THEN [unis EXCEPT !["model"] = ModelView(scaleXYZ, XrotationDegrees,
                                             YrotationDegrees, ZrotationDegrees,
                                             positionXYZ)]
    ELSE unis

-------------------------------------------------------------------------------
\* SceneManager::SetShaderColor, SetShaderTexture, SetTextureUVScale

SetShaderColor(shader, unis, currentColor) ==
    IF shader
    THEN [unis EXCEPT !["bUseTexture"] = <<0>>, !["objectColor"] = currentColor]
    ELSE unis

\* as SetShaderTexture, a tag that is not found made to sample unit 0
SetShaderTextureClamped(shader, s, unis, textureTag) ==
    IF shader
    THEN LET textureID == FindTextureSlot(s, textureTag)
         IN  [unis EXCEPT !["bUseTexture"] = <<1>>,
                          !["objectTexture"] = <<IF textureID < 0 THEN 0 ELSE textureID>>]
    ELSE unis

\* as SetShaderTexture, leaving the texture switch as it is
SetShaderTextureKeepsMode(shader, s, unis, textureTag) ==
    IF shader
    THEN [unis EXCEPT !["objectTexture"] = <<FindTextureSlot(s, textureTag)>>]
    ELSE unis

SetShaderTexture(shader, s, unis, textureTag) ==
    IF shader
    THEN [unis EXCEPT !["bUseTexture"] = <<1>>,
                      !["objectTexture"] = <<FindTextureSlot(s, textureTag)>>]
    ELSE unis

SetTextureUVScale(shader, unis, u, v) ==
    IF shader THEN [unis EXCEPT !["UVscale"] = <<u, v>>] ELSE unis

-------------------------------------------------------------------------------
\* SceneManager::RenderScene: the calls it makes, in order.  args are the
\* scale, the three angles and the position of a SetTransformations call, the
\* colour of a SetShaderColor call, u and v of a SetTextureUVScale call.

RenderCall(op, tag, args, line) == [op |-> op, tag |-> tag, args |-> args, line |-> line]

DrawCalls ==
    {"DrawPlaneMesh", "DrawBoxMesh", "DrawCylinderMesh", "DrawConeMesh", "DrawSphereMesh"}

RenderCalls ==
    <<
    RenderCall("SetTransformations", "", <<25000, 5000, 20000, 0, 0, 0, -7000, 0, -7000>>, 588),
    RenderCall("SetShaderColor", "", <<1000, 540, 540, 540>>, 595),
    RenderCall("SetShaderTexture", "wood", <<>>, 597),
    RenderCall("SetTextureUVScale", "", <<1000, 1000>>, 598),
    RenderCall("SetShaderMaterial", "wood", <<>>, 599),
    RenderCall("DrawPlaneMesh", "", <<>>, 602),
    RenderCall("SetTransformations", "", <<1000, 4000, 1000, 0, 0, 0, 0, 0, 0>>, 618),
    RenderCall("SetShaderColor", "", <<184, 310, 310, 1000>>, 625),
    RenderCall("SetShaderTexture", "plastic", <<>>, 627),
    RenderCall("SetTextureUVScale", "", <<1000, 1000>>, 628),
    RenderCall("SetShaderMaterial", "metal", <<>>, 629),
    RenderCall("DrawCylinderMesh", "", <<>>, 632),
    RenderCall("SetTransformations", "", <<1000, 2000, 1000, 0, 0, 0, 0, 4000, 0>>, 647),
    RenderCall("SetShaderColor", "", <<502, 502, 502, 1000>>, 654),
    RenderCall("SetShaderTexture", "grip", <<>>, 655),
    RenderCall("SetTextureUVScale", "", <<500, 500>>, 656),
    RenderCall("SetShaderMaterial", "wood", <<>>, 657),
    RenderCall("DrawCylinderMesh", "", <<>>, 660),
    RenderCall("SetTransformations", "", <<1000, 1000, 1000, 0, 0, 0, 0, 6000, 0>>, 675),
    RenderCall("SetShaderColor", "", <<184, 310, 310, 1000>>, 682),
    RenderCall("SetShaderTexture", "plastic", <<>>, 683),
    RenderCall("SetTextureUVScale", "", <<1000, 1000>>, 684),
    RenderCall("SetShaderMaterial", "metal", <<>>, 685),
    RenderCall("DrawCylinderMesh", "", <<>>, 688),
    RenderCall("SetTransformations", "", <<800, 3000, 1000, 0, 0, 0, 0, 7000, 0>>, 703),
    RenderCall("SetShaderColor", "", <<184, 310, 310, 1000>>, 710),
    RenderCall("SetShaderTexture", "plastic", <<>>, 711),
    RenderCall("SetTextureUVScale", "", <<1000, 1000>>, 712),
    RenderCall("SetShaderMaterial", "metal", <<>>, 713),
    RenderCall("DrawCylinderMesh", "", <<>>, 716),
    RenderCall("SetTransformations", "", <<1000, 1700, 1000, 0, 0, 0, 0, 10000, 0>>, 731),
    RenderCall("SetShaderColor", "", <<184, 310, 310, 1000>>, 738),
    RenderCall("SetShaderTexture", "plastic", <<>>, 739),
    RenderCall("SetTextureUVScale", "", <<1000, 1000>>, 740),
    RenderCall("SetShaderMaterial", "metal", <<>>, 741),
    RenderCall("DrawCylinderMesh", "", <<>>, 744),
    RenderCall("SetTransformations", "", <<700, 300, 1000, 0, 0, 0, 0, 11600, 0>>, 759),
    RenderCall("SetShaderTexture", "red", <<>>, 767),
    RenderCall("SetTextureUVScale", "", <<2000, 2000>>, 768),
    RenderCall("SetShaderMaterial", "wood", <<>>, 769),
    RenderCall("DrawCylinderMesh", "", <<>>, 772),
    RenderCall("SetTransformations", "", <<800, 100, 1000, 0, 0, 0, 1300, 11000, 0>>, 787),
    RenderCall("SetShaderTexture", "plastic", <<>>, 795),
    RenderCall("SetTextureUVScale", "", <<100, 100>>, 796),
    RenderCall("SetShaderMaterial", "wood", <<>>, 797),
    RenderCall("DrawBoxMesh", "", <<>>, 800),
    RenderCall("SetTransformations", "", <<300, 4000, 500, 0, 0, 0, 1500, 9000, 0>>, 815),
    RenderCall("SetShaderTexture", "plastic", <<>>, 823),
    RenderCall("SetTextureUVScale", "", <<100, 100>>, 824),
    RenderCall("SetShaderMaterial", "wood", <<>>, 825),
    RenderCall("DrawBoxMesh", "", <<>>, 828),
    RenderCall("SetTransformations", "", <<12000, 14000, 10000, 0, 0, 0, -12000, 7200, -12000>>, 843),
    RenderCall("SetShaderTexture", "blue", <<>>, 851),
    RenderCall("SetTextureUVScale", "", <<100, 100>>, 852),
    RenderCall("SetShaderMaterial", "plastic", <<>>, 853),
    RenderCall("DrawBoxMesh", "", <<>>, 856),
    RenderCall("SetTransformations", "", <<1500, 2900, 100, 0, 0, 0, -12000, 9800, -7000>>, 871),
    RenderCall("SetShaderTexture", "silver", <<>>, 879),
    RenderCall("SetTextureUVScale", "", <<100, 100>>, 880),
    RenderCall("SetShaderMaterial", "wood", <<>>, 881),
    RenderCall("DrawConeMesh", "", <<>>, 884),
    RenderCall("SetTransformations", "", <<1500, 2900, 100, 0, 0, 60000, -14000, 9000, -7000>>, 899),
    RenderCall("SetShaderTexture", "silver", <<>>, 907),
    RenderCall("SetTextureUVScale", "", <<100, 100>>, 908),
    RenderCall("SetShaderMaterial", "wood", <<>>, 909),
    RenderCall("DrawConeMesh", "", <<>>, 912),
    RenderCall("SetTransformations", "", <<1500, 2900, 100, 0, 0, -60000, -10600, 9000, -7000>>, 927),
    RenderCall("SetShaderTexture", "silver", <<>>, 935),
    RenderCall("SetTextureUVScale", "", <<100, 100>>, 936),
    RenderCall("SetShaderMaterial", "wood", <<>>, 937),
    RenderCall("DrawConeMesh", "", <<>>, 940),
    RenderCall("SetTransformations", "", <<1500, 2900, 100, 0, 0, -150000, -11200, 7400, -7000>>, 955),
    RenderCall("SetShaderTexture", "silver", <<>>, 963),
    RenderCall("SetTextureUVScale", "", <<100, 100>>, 964),
    RenderCall("SetShaderMaterial", "wood", <<>>, 965),
    RenderCall("DrawConeMesh", "", <<>>, 968),
    RenderCall("SetTransformations", "", <<1500, 2900, 100, 0, 0, 150000, -13300, 7400, -7000>>, 983),
    RenderCall("SetShaderTexture", "silver", <<>>, 991),
    RenderCall("SetTextureUVScale", "", <<100, 100>>, 992),
    RenderCall("SetShaderMaterial", "wood", <<>>, 993),
    RenderCall("DrawConeMesh", "", <<>>, 996),
    RenderCall("SetTransformations", "", <<2500, 300, 2500, 0, 90000, 90000, -12300, 8400, -7200>>, 1011),
    RenderCall("SetShaderTexture", "silver", <<>>, 1019),
    RenderCall("SetTextureUVScale", "", <<100, 100>>, 1020),
    RenderCall("SetShaderMaterial", "wood", <<>>, 1021),
    RenderCall("DrawCylinderMesh", "", <<>>, 1024),
    RenderCall("SetTransformations", "", <<8000, 400, 10000, 0, 0, 0, 6000, 600, -13000>>, 1041),
    RenderCall("SetShaderTexture", "metal2", <<>>, 1049),
    RenderCall("SetTextureUVScale", "", <<100, 100>>, 1050),
    RenderCall("SetShaderMaterial", "wood", <<>>, 1051),
    RenderCall("DrawBoxMesh", "", <<>>, 1054),
    RenderCall("SetTransformations", "", <<8000, 200, 10000, 0, 0, 0, 6000, 900, -13000>>, 1070),
    RenderCall("SetShaderTexture", "red", <<>>, 1078),
    RenderCall("SetTextureUVScale", "", <<100, 100>>, 1079),
    RenderCall("SetShaderMaterial", "plastic", <<>>, 1080),
    RenderCall("DrawBoxMesh", "", <<>>, 1083),
    RenderCall("SetTransformations", "", <<8000, 200, 10000, 0, 0, 0, 6000, 1100, -13000>>, 1098),
    RenderCall("SetShaderTexture", "blue", <<>>, 1106),
    RenderCall("SetTextureUVScale", "", <<100, 100>>, 1107),
    RenderCall("SetShaderMaterial", "plastic", <<>>, 1108),
    RenderCall("DrawBoxMesh", "", <<>>, 1111),
    RenderCall("SetTransformations", "", <<8000, 200, 10000, 0, 0, 0, 6000, 1300, -13000>>, 1126),
    RenderCall("SetShaderTexture", "yellow", <<>>, 1134),
    RenderCall("SetTextureUVScale", "", <<100, 100>>, 1135),
    RenderCall("SetShaderMaterial", "plastic", <<>>, 1136),
    RenderCall("DrawBoxMesh", "", <<>>, 1139),
    RenderCall("SetTransformations", "", <<8000, 400, 10000, 0, 0, 0, 6000, 1600, -13000>>, 1154),
    RenderCall("SetShaderTexture", "metal2", <<>>, 1162),
    RenderCall("SetTextureUVScale", "", <<100, 100>>, 1163),
    RenderCall("SetShaderMaterial", "metal", <<>>, 1164),
    RenderCall("DrawBoxMesh", "", <<>>, 1167),
    RenderCall("SetTransformations", "", <<1400, 4400, 100, 0, 0, 90000, 6000, 1150, -7800>>, 1182),
    RenderCall("SetShaderTexture", "plastic", <<>>, 1190),
    RenderCall("SetTextureUVScale", "", <<100, 100>>, 1191),
    RenderCall("SetShaderMaterial", "wood", <<>>, 1192),
    RenderCall("DrawBoxMesh", "", <<>>, 1195),
    RenderCall("SetTransformations", "", <<1400, 4400, 100, 0, 0, 90000, 6000, 1150, -18100>>, 1210),
    RenderCall("SetShaderTexture", "plastic", <<>>, 1218),
    RenderCall("SetTextureUVScale", "", <<100, 100>>, 1219),
    RenderCall("SetShaderMaterial", "wood", <<>>, 1220),
    RenderCall("DrawBoxMesh", "", <<>>, 1223),
    RenderCall("SetTransformations", "", <<1400, 3000, 100, 0, 90000, 90000, 2000, 1150, -13100>>, 1238),
    RenderCall("SetShaderTexture", "plastic", <<>>, 1246),
    RenderCall("SetTextureUVScale", "", <<100, 100>>, 1247),
    RenderCall("SetShaderMaterial", "wood", <<>>, 1248),
    RenderCall("DrawBoxMesh", "", <<>>, 1251),
    RenderCall("SetTransformations", "", <<1400, 3000, 100, 0, 90000, 90000, 10000, 1150, -13100>>, 1266),
    RenderCall("SetShaderTexture", "plastic", <<>>, 1274),
    RenderCall("SetTextureUVScale", "", <<100, 100>>, 1275),
    RenderCall("SetShaderMaterial", "wood", <<>>, 1276),
    RenderCall("DrawBoxMesh", "", <<>>, 1279),
    RenderCall("SetTransformations", "", <<1000, 100, 1000, 0, 0, 0, 8400, 1800, -9500>>, 1294),
    RenderCall("SetShaderTexture", "silver", <<>>, 1302),
    RenderCall("SetTextureUVScale", "", <<100, 100>>, 1303),
    RenderCall("SetShaderMaterial", "metal", <<>>, 1304),
    RenderCall("DrawCylinderMesh", "", <<>>, 1307),
    RenderCall("SetTransformations", "", <<1700, 300, 1700, 0, 0, 0, -13000, 500, 2000>>, 1323),
    RenderCall("SetShaderTexture", "silver", <<>>, 1331),
    RenderCall("SetTextureUVScale", "", <<100, 100>>, 1332),
    RenderCall("SetShaderMaterial", "metal", <<>>, 1333),
    RenderCall("DrawCylinderMesh", "", <<>>, 1336),
    RenderCall("SetTransformations", "", <<1800, 300, 1800, 0, 0, 0, -13000, 400, 2000>>, 1351),
    RenderCall("SetShaderTexture", "metal2", <<>>, 1359),
    RenderCall("SetTextureUVScale", "", <<100, 100>>, 1360),
    RenderCall("SetShaderMaterial", "metal", <<>>, 1361),
    RenderCall("DrawCylinderMesh", "", <<>>, 1364),
    RenderCall("SetTransformations", "", <<200, 100, 200, 0, 90000, 90000, -12850, 540, 3800>>, 1379),
    RenderCall("SetShaderTexture", "plastic", <<>>, 1387),
    RenderCall("SetTextureUVScale", "", <<100, 100>>, 1388),
    RenderCall("SetShaderMaterial", "plastic", <<>>, 1389),
    RenderCall("DrawSphereMesh", "", <<>>, 1392),
    RenderCall("SetTransformations", "", <<1200, 300, 2200, 0, 0, 0, -15000, 520, 2000>>, 1407),
    RenderCall("SetShaderTexture", "silver", <<>>, 1415),
    RenderCall("SetTextureUVScale", "", <<100, 100>>, 1416),
    RenderCall("SetShaderMaterial", "metal", <<>>, 1417),
    RenderCall("DrawBoxMesh", "", <<>>, 1420),
    RenderCall("SetTransformations", "", <<1200, 300, 2200, 0, 0, 0, -11000, 520, 2000>>, 1435),
    RenderCall("SetShaderTexture", "silver", <<>>, 1443),
    RenderCall("SetTextureUVScale", "", <<100, 100>>, 1444),
    RenderCall("SetShaderMaterial", "metal", <<>>, 1445),
    RenderCall("DrawBoxMesh", "", <<>>, 1448),
    RenderCall("SetTransformations", "", <<10500, 300, 1800, 0, 0, 0, -13000, 200, 2000>>, 1463),
    RenderCall("SetShaderTexture", "silver", <<>>, 1471),
    RenderCall("SetTextureUVScale", "", <<100, 100>>, 1472),
    RenderCall("SetShaderMaterial", "metal", <<>>, 1473),
    RenderCall("DrawBoxMesh", "", <<>>, 1476),
    RenderCall("SetTransformations", "", <<100, 100, 1200, 0, 30000, 0, -13200, 900, 1800>>, 1491),
    RenderCall("SetShaderTexture", "plastic", <<>>, 1499),
    RenderCall("SetTextureUVScale", "", <<100, 100>>, 1500),
    RenderCall("SetShaderMaterial", "plastic", <<>>, 1501),
    RenderCall("DrawBoxMesh", "", <<>>, 1504),
    RenderCall("SetTransformations", "", <<100, 100, 700, 0, 0, 0, -12900, 900, 1900>>, 1519),
    RenderCall("SetShaderTexture", "plastic", <<>>, 1527),
    RenderCall("SetTextureUVScale", "", <<100, 100>>, 1528),
    RenderCall("SetShaderMaterial", "plastic", <<>>, 1529),
    RenderCall("DrawBoxMesh", "", <<>>, 1532)
    >>

\* a call as the log keeps it, with the texture switch and the sampler as the
\* call leaves them
Logged(c, unis) ==
    [op |-> c.op, tag |-> c.tag, args |-> c.args, line |-> c.line,
     bUseTexture |-> unis["bUseTexture"], objectTexture |-> unis["objectTexture"]]

\* one call of RenderScene on the running frame rs: the uniforms, whether the
\* process has crashed, and the log of the calls made, each with the texture
\* switch and sampler it leaves
RenderStep(shader, s, materials, local, rs, c) ==
    LET unis ==
            CASE c.op = "SetTransformations" ->
                     SetTransformations(shader, rs.uniforms,
                         <<c.args[1], c.args[2], c.args[3]>>, c.args[4], c.args[5],
                         c.args[6], <<c.args[7], c.args[8], c.args[9]>>)
              [] c.op = "SetShaderColor" -> SetShaderColor(shader, rs.uniforms, c.args)
              [] c.op = "SetShaderTexture" -> SetShaderTexture(shader, s, rs.uniforms, c.tag)
              [] c.op = "SetTextureUVScale" ->
                     SetTextureUVScale(shader, rs.uniforms, c.args[1], c.args[2])
              [] c.op = "SetShaderMaterial" ->
                     SetShaderMaterial(materials, rs.uniforms, c.tag, local).uniforms
              [] OTHER -> rs.uniforms
        crash == /\ c.op = "SetShaderMaterial"
                 /\ ~shader
                 /\ SetShaderMaterial(materials, rs.uniforms, c.tag, local).deref
    IN  IF rs.fault THEN rs
        ELSE IF crash THEN [rs EXCEPT !.fault = TRUE]
        ELSE [uniforms |-> unis, fault |-> FALSE,
              frame |-> Append(rs.frame, Logged(c, unis))]

\* as RenderRange, without the SetTextureUVScale calls
RECURSIVE RenderRangeNoUVScale(_, _, _, _, _, _, _, _)
RenderRangeNoUVScale(shader, s, materials, local, rs, calllist, lo, hi) ==
    IF rs.fault THEN rs
    ELSE IF lo = hi
    THEN IF calllist[lo].op = "SetTextureUVScale" THEN rs
         ELSE RenderStep(shader, s, materials, local, rs, calllist[lo])
    ELSE LET mid == (lo + hi) \div 2
         IN  RenderRangeNoUVScale(shader, s, materials, local,
                 RenderRangeNoUVScale(shader, s, materials, local, rs, calllist, lo, mid),
                 calllist, mid + 1, hi)

\* the calls lo..hi of calllist made in order on the frame rs (the range is
\* halved to keep the evaluation shallow); nothing runs after a crash
RECURSIVE RenderRange(_, _, _, _, _, _, _, _)
RenderRange(shader, s, materials, local, rs, calllist, lo, hi) ==
    IF rs.fault THEN rs
    ELSE IF lo = hi
    THEN RenderStep(shader, s, materials, local, rs, calllist[lo])
    ELSE LET mid == (lo + hi) \div 2
         IN  RenderRange(shader, s, materials, local,
                         RenderRange(shader, s, materials, local, rs, calllist, lo, mid),
                         calllist, mid + 1, hi)

\* the frame one RenderScene call leaves
RenderSceneFrame(shader, s, materials, unis, local) ==
    RenderRange(shader, s, materials, local,
                [uniforms |-> unis, fault |-> FALSE, frame |-> <<>>],
                RenderCalls, 1, Len(RenderCalls))

-------------------------------------------------------------------------------
\* The lifetime of the scene: construction, PrepareScene, frames, destruction;
\* the owner may define the materials and set a texture at any time before
\* destruction

\* the tags SetShaderTexture is called with from outside RenderScene: a tag of
\* the scene and a tag never loaded
TextureTagChoices == {"plastic", "marble"}

\* what the nine files decode to in a lifetime: all good, or the first file
\* ("plastic") missing, or the fifth ("wood") with one channel
LifeImages ==
    {SceneImages(bad, colorChannels) :
        bad \in {<<>>, <<0>>, [k \in {5} |-> 1]}, colorChannels \in {3, 4}}

\* SetShaderTexture(textureTag) called by the owner
SetTexture(textureTag) ==
    /\ ~fault
    /\ phase # "destroyed"
    /\ uniforms' = SetShaderTexture(m_pShaderManager, TexNow, uniforms, textureTag)
    /\ last' = Call("SetShaderTexture", textureTag, FALSE, -1, NoMaterial)
    /\ UNCHANGED <<texVars, m_objectMaterials, m_pShaderManager, phase, loads,
                   passed, calls, frame>>

\* as RenderScene, defining the materials it is about to use first
RenderSceneDefinesMaterials(local) ==
    /\ ~fault
    /\ phase = "prepared"
    /\ m_objectMaterials' = DefineObjectMaterials(<<>>)
    /\ LET r == RenderSceneFrame(m_pShaderManager, TexNow, m_objectMaterials',
                                 uniforms, local)
       IN  /\ uniforms' = r.uniforms
           /\ fault' = r.fault
           /\ frame' = r.frame
    /\ last' = Call("RenderScene", "", FALSE, -1, NoMaterial)
    /\ UNCHANGED <<m_textureIDs, m_loadedTextures, adjacent, glTextures, glUnits,
                   glActive, imageBuffers, m_pShaderManager, phase, loads, passed,
                   calls>>

\* SceneManager::RenderScene, once the meshes are loaded; local is what the
\* uninitialised OBJECT_MATERIAL of SetShaderMaterial holds during the frame
RenderScene(local) ==
    /\ ~fault
    /\ phase = "prepared"
    /\ LET r == RenderSceneFrame(m_pShaderManager, TexNow, m_objectMaterials,
                                 uniforms, local)
       IN  /\ uniforms' = r.uniforms
           /\ fault' = r.fault
           /\ frame' = r.frame
    /\ last' = Call("RenderScene", "", FALSE, -1, NoMaterial)
    /\ UNCHANGED <<m_textureIDs, m_loadedTextures, adjacent, glTextures, glUnits,
                   glActive, imageBuffers, m_objectMaterials, m_pShaderManager,
                   phase, loads, passed, calls>>

NextLife ==
    \/ \E images \in LifeImages, ub \in UBChoices : PrepareScene(images, ub)
    \/ Define
    \/ \E textureTag \in TextureTagChoices : SetTexture(textureTag)
    \/ \E local \in IndeterminateMaterials : RenderScene(local)
    \/ Destructor

SpecLife == Init /\ [][NextLife]_vars

-------------------------------------------------------------------------------
\* the unit a tag was registered for: the index of the first successful load
\* of the tag, -1 when no load of it succeeded
LoadedSlot(tag) ==
    LET hits == {k \in DOMAIN loads : loads[k][1] = tag}
    IN  IF hits = {} THEN -1 ELSE Min(hits) - 1

\* C13: after SetShaderTexture(tag) on a manager whose shader manager is not
\* null, bUseTexture is true and objectTexture is the slot the tag was loaded
\* at, or -1, passed through as it is, when the tag was never loaded
C13_SetShaderTextureWritesSlot ==
    (last.op = "SetShaderTexture" /\ m_pShaderManager)
        => /\ uniforms["bUseTexture"] = <<1>>
           /\ uniforms["objectTexture"] = <<LoadedSlot(last.tag)>>
           /\ last.tag \notin {loads[k][1] : k \in DOMAIN loads}
                  => uniforms["objectTexture"] = <<-1>>

\* SetShaderTexture has just been called with a tag that was never loaded, on
\* a scene with nine textures, and the sampler holds -1
C13_Witness ==
    /\ last.op = "SetShaderTexture"
    /\ last.tag = "marble"
    /\ m_pShaderManager
    /\ m_loadedTextures = 9
    /\ uniforms["bUseTexture"] = <<1>>
    /\ uniforms["objectTexture"] = <<-1>>

-------------------------------------------------------------------------------
\* SetTransformations over right angles and small scales and positions, where
\* the thousandths are exact

RightAngles == {0, 90000, -90000, 180000}
ScaleChoices == {<<1000, 1000, 1000>>, <<2000, 1000, 3000>>}
PositionChoices == {<<0, 0, 0>>, <<1000, 2000, 3000>>}

\* SetTransformations called by the owner; the log keeps the arguments
Transform(scaleXYZ, XrotationDegrees, YrotationDegrees, ZrotationDegrees, positionXYZ) ==
    /\ ~fault
    /\ phase # "destroyed"
    /\ uniforms' = SetTransformations(m_pShaderManager, uniforms, scaleXYZ,
                                      XrotationDegrees, YrotationDegrees,
                                      ZrotationDegrees, positionXYZ)
    /\ frame' = <<Logged(RenderCall("SetTransformations", "",
                                    scaleXYZ \o <<XrotationDegrees, YrotationDegrees,
                                                  ZrotationDegrees>> \o positionXYZ,
                                    260),
                         uniforms')>>
    /\ last' = Call("SetTransformations", "", FALSE, -1, NoMaterial)
    /\ UNCHANGED <<texVars, m_objectMaterials, m_pShaderManager, phase, loads,
                   passed, calls>>

NextXform ==
    \E scaleXYZ \in ScaleChoices, x \in RightAngles, y \in RightAngles,
       z \in RightAngles, positionXYZ \in PositionChoices :
        Transform(scaleXYZ, x, y, z, positionXYZ)

SpecXform == Init /\ [][NextXform]_vars

\* a matrix applied to the point or direction p = <<x, y, z, w>>
Apply(M, p) ==
    [i \in 1..4 |->
        (M[i][1] * p[1] + M[i][2] * p[2] + M[i][3] * p[3] + M[i][4] * p[4]) \div 1000]

\* the elementary moves of a point, written out coordinate by coordinate
Scaled(v, p) == <<(v[1] * p[1]) \div 1000, (v[2] * p[2]) \div 1000, (v[3] * p[3]) \div 1000, p[4]>>
TurnedAboutX(a, p) ==
    <<p[1], (Cos(a) * p[2] - Sin(a) * p[3]) \div 1000,
      (Sin(a) * p[2] + Cos(a) * p[3]) \div 1000, p[4]>>
TurnedAboutY(a, p) ==
    <<(Cos(a) * p[1] + Sin(a) * p[3]) \div 1000, p[2],
      (Cos(a) * p[3] - Sin(a) * p[1]) \div 1000, p[4]>>
TurnedAboutZ(a, p) ==
    <<(Cos(a) * p[1] - Sin(a) * p[2]) \div 1000,
      (Sin(a) * p[1] + Cos(a) * p[2]) \div 1000, p[3], p[4]>>
Moved(v, p) ==
    <<p[1] + (v[1] * p[4]) \div 1000, p[2] + (v[2] * p[4]) \div 1000,
      p[3] + (v[3] * p[4]) \div 1000, p[4]>>

\* the three axes as directions and the origin as a point
Probes ==
    {<<1000, 0, 0, 0>>, <<0, 1000, 0, 0>>, <<0, 0, 1000, 0>>, <<0, 0, 0, 1000>>,
     <<1000, 2000, 3000, 1000>>}

\* Rx(90) * Ry(90), computed by hand
ReferenceXThenY ==
    << <<0, 0, 1000, 0>>, <<1000, 0, 0, 0>>, <<0, 1000, 0, 0>>, <<0, 0, 0, 1000>> >>

\* Ry(90) * Rx(90), computed by hand
ReferenceYThenX ==
    << <<0, 1000, 0, 0>>, <<0, 0, -1000, 0>>, <<-1000, 0, 0, 0>>, <<0, 0, 0, 1000>> >>

\* C15: the "model" uniform SetTransformations pushes moves every point as
\* scaling, then turning about Z, then about Y, then about X, then translating
\* does (the product Translation * RotationX * RotationY * RotationZ * Scale);
\* for scale (1,1,1), angles (90,90,0) and position (0,0,0) it is the
\* hand-computed Rx(90)*Ry(90), which is not Ry(90)*Rx(90)
C15_ModelIsTRxRyRzS ==
    (last.op = "SetTransformations" /\ m_pShaderManager)
        => LET a == frame[1].args
               scaleXYZ == <<a[1], a[2], a[3]>>
               positionXYZ == <<a[7], a[8], a[9]>>
               model == uniforms["model"]
           IN  /\ \A p \in Probes :
                      Apply(model, p) =
                          Moved(positionXYZ,
                              TurnedAboutX(a[4],
                                  TurnedAboutY(a[5],
                                      TurnedAboutZ(a[6], Scaled(scaleXYZ, p)))))
               /\ a = <<1000, 1000, 1000, 90000, 90000, 0, 0, 0, 0>>
                      => (model = ReferenceXThenY /\ model # ReferenceYThenX)

\* SetTransformations has just been called with scale (1,1,1), angles
\* (90,90,0) and position (0,0,0), and the uniform is set
C15_Witness ==
    /\ last.op = "SetTransformations"
    /\ m_pShaderManager
    /\ frame[1].args = <<1000, 1000, 1000, 90000, 90000, 0, 0, 0, 0>>
    /\ uniforms["model"] = ReferenceXThenY

-------------------------------------------------------------------------------
\* The frame log: its draw calls and what lies between them

Draws == {d \in DOMAIN frame : frame[d].op \in DrawCalls}

\* the draw call before position i, 0 when there is none
DrawBefore(i) ==
    LET earlier == {d \in Draws : d < i}
    IN  IF earlier = {} THEN 0 ELSE CHOOSE d \in earlier : \A e \in earlier : e <= d

\* the draw call the call at position i belongs to, 0 when the frame stopped
\* before it
DrawAfter(i) ==
    LET later == {d \in Draws : d > i}
    IN  IF later = {} THEN 0 ELSE Min(later)

\* C14: in the frame RenderScene leaves, every draw call has, between the
\* draw call before it and itself, a SetTransformations call, then a
\* SetShaderColor or SetShaderTexture call, then a SetTextureUVScale call,
\* then a SetShaderMaterial call
C14_DrawPrecededBySetters ==
    \A d \in Draws :
        \E t, c, u, m \in (DrawBefore(d) + 1)..(d - 1) :
            /\ t < c /\ c < u /\ u < m
            /\ frame[t].op = "SetTransformations"
            /\ frame[c].op \in {"SetShaderColor", "SetShaderTexture"}
            /\ frame[u].op = "SetTextureUVScale"
            /\ frame[m].op = "SetShaderMaterial"

\* RenderScene has run to its end: all its calls are in the log, draws of
\* both record shapes among them
C14_Witness ==
    /\ last.op = "RenderScene"
    /\ ~fault
    /\ Len(frame) = Len(RenderCalls)
    /\ Cardinality(Draws) > 30
    /\ \E d \in Draws : d - DrawBefore(d) = 5
    /\ \E d \in Draws : d - DrawBefore(d) = 6

\* C16: in a lifetime DestroyGLTextures runs exactly once, in the
\* destructor: not before the object is destroyed, once when it is, and no
\* call of any method (load, bind, frame) follows the destruction
C16_DestroyOnceAtTeardown ==
    /\ [](calls.destroys = IF phase = "destroyed" THEN 1 ELSE 0)
    /\ [][/\ phase # "destroyed"
          /\ calls'.destroys # calls.destroys
                 => (last'.op = "~SceneManager" /\ phase' = "destroyed")]_vars

\* the object has been destroyed after PrepareScene and a complete frame
C16_Witness ==
    /\ phase = "destroyed"
    /\ last.op = "~SceneManager"
    /\ calls.destroys = 1
    /\ Len(frame) = Len(RenderCalls)
    /\ m_loadedTextures = 9

\* C17: RenderScene, with every setter and lookup it calls, and
\* SetShaderTexture called alone leave m_textureIDs, m_loadedTextures and
\* m_objectMaterials as they were; no step of a lifetime removes or changes a
\* material already in m_objectMaterials
C17_RenderingKeepsRegistries ==
    [][/\ last'.op \in {"RenderScene", "SetShaderTexture"}
              => UNCHANGED <<m_textureIDs, m_loadedTextures, adjacent, m_objectMaterials>>
       /\ Len(m_objectMaterials') >= Len(m_objectMaterials)
       /\ \A k \in DOMAIN m_objectMaterials :
              m_objectMaterials'[k] = m_objectMaterials[k]]_vars

\* a complete frame has been rendered with textures and materials registered
C17_Witness ==
    /\ last.op = "RenderScene"
    /\ Len(frame) = Len(RenderCalls)
    /\ m_loadedTextures = 9
    /\ Len(m_objectMaterials) = 2

\* the tags RenderScene passes to SetShaderTexture
FrameTextureTags == {frame[i].tag : i \in {j \in DOMAIN frame : frame[j].op = "SetShaderTexture"}}

\* C19: when the nine loads of LoadSceneTextures have succeeded, every
\* SetShaderTexture call of a frame is made with one of wood, plastic, grip,
\* red, blue, silver, metal2, yellow and writes a slot in 0..8 to
\* objectTexture, never -1
C19_FrameTagsResolve ==
    (m_loadedTextures = 9 /\ Len(loads) = 9)
        => \A i \in DOMAIN frame :
               frame[i].op = "SetShaderTexture"
                   => /\ frame[i].tag \in {"wood", "plastic", "grip", "red", "blue",
                                           "silver", "metal2", "yellow"}
                      /\ frame[i].objectTexture \in {<<slot>> : slot \in 0..8}
                      /\ frame[i].objectTexture # <<-1>>

\* a complete frame has been rendered after nine successful loads, with all
\* eight tags used
C19_Witness ==
    /\ m_loadedTextures = 9
    /\ Len(loads) = 9
    /\ last.op = "RenderScene"
    /\ Len(frame) = Len(RenderCalls)
    /\ FrameTextureTags = {"wood", "plastic", "grip", "red", "blue", "silver",
                           "metal2", "yellow"}

\* C20: at every draw call of a frame bUseTexture is true, and every
\* SetShaderColor call is followed, before the draw call of its record, by a
\* SetShaderTexture call
C20_DrawsAreTextured ==
    /\ \A d \in Draws : frame[d].bUseTexture = <<1>>
    /\ \A i \in DOMAIN frame :
           (frame[i].op = "SetShaderColor" /\ DrawAfter(i) # 0)
               => \E j \in (i + 1)..(DrawAfter(i) - 1) : frame[j].op = "SetShaderTexture"

\* a complete frame has been rendered, in which SetShaderColor calls switched
\* texturing off
C20_Witness ==
    /\ last.op = "RenderScene"
    /\ Len(frame) = Len(RenderCalls)
    /\ \E i \in DOMAIN frame :
           frame[i].op = "SetShaderColor" /\ frame[i].bUseTexture = <<0>>

\* C21: PrepareScene leaves m_objectMaterials as it is, so as long as
\* DefineObjectMaterials has not been called by the owner the registry is
\* empty in every frame and no material.* uniform has been written
C21_NoMaterialsWithoutDefine ==
    calls.defines = 0
        => /\ m_objectMaterials = <<>>
           /\ \A u \in MaterialUniforms : uniforms[u] = <<>>

\* a complete frame, with its SetShaderMaterial calls, has been rendered after
\* PrepareScene alone, and the registry is empty
C21_Witness ==
    /\ calls.defines = 0
    /\ phase = "prepared"
    /\ last.op = "RenderScene"
    /\ Len(frame) = Len(RenderCalls)
    /\ \E i \in DOMAIN frame : frame[i].op = "SetShaderMaterial"
    /\ m_objectMaterials = <<>>
    /\ uniforms["bUseLighting"] # <<>>

\* C22: the registered entries are exactly the slots 0..m_loadedTextures-1,
\* holding the tags of the successful loads in order, every later slot still
\* holds the placeholder, m_loadedTextures is the number of successful loads,
\* and a successful load is registered at its position among the load calls
\* lowered by one for each load that failed before it
C22_SlotsDense ==
    /\ m_loadedTextures = Len(loads)
    /\ \A i \in 0..(m_loadedTextures - 1) : EntryAt(TexNow, i).tag = loads[i + 1][1]
    /\ \A i \in m_loadedTextures..(NumSlots - 1) : m_textureIDs[i].tag = PlaceholderTag
    /\ (last.op = "CreateGLTexture" /\ last.ret)
           => last.slot = (calls.creates - 1) - (calls.creates - Len(loads))

\* a load has succeeded after one failed load and was registered one slot
\* lower than its place among the calls
C22_Witness ==
    /\ last.op = "CreateGLTexture"
    /\ last.ret
    /\ calls.creates = Len(loads) + 1
    /\ Len(loads) >= 3
    /\ last.slot = calls.creates - 2
    /\ FindTextureSlot(TexNow, last.tag) = calls.creates - 2

===============================================================================
